---- MODULE Spec2Model ----
(***************************************************************************)
(* Guideline API (apps/api/app): the document, review and schedule stores  *)
(* of db.py, the retrieval helpers of retrieval.py, the generation         *)
(* provider adapters of llm.py and the request handlers of main.py.        *)
(*                                                                         *)
(* Text is modelled at the granularity the code inspects it.  A question   *)
(* is the set of its lower-cased tokens (alphanumeric runs and symbols);   *)
(* a chunk content is the set of vocabulary tokens that occur in it as a   *)
(* substring together with whether it is shorter than 80 characters.       *)
(* Distances are exact rationals in units of 1/Scale; rounded distances    *)
(* are integers in thousandths.  An answer text is named by the branch     *)
(* that produces it.  A Citation keeps chunkId, docId, pageStart and       *)
(* distance; docTitle, pageEnd and quote are plain copies of stored        *)
(* fields that no decision reads.                                          *)
(***************************************************************************)
EXTENDS Integers, Sequences, FiniteSets, TLC

\* ------------------------------------------------------------------ bounds
MaxDocs == 2        \* documents ingested in one run
MaxReviews == 2     \* review items in the queue
MaxRand == 1000000
MaxClock == 1       \* int(time.time()*1000) runs over 0..MaxClock

\* --------------------------------------------------------------- text model
Null == "null"      \* None where a string may stand
NoId == <<>>        \* None where an id may stand
NoTime == -1        \* None where a timestamp may stand

Scale == 420 * 100  \* 1/Scale represents k/n for n <= 7 and two decimals exactly

\* The questions asked in a run, each the token set of the sentence.
QMeals == {"what", "is", "the", "meals", "limit"}           \* "What is the meals limit?"
QSpace == {"what", "is", "the", "policy", "on", "spaceships"} \* "What is the policy on spaceships?"
QHotel == {"hotel", "limit"}                                 \* "Hotel limit?"
QShift == {"shift", "limit"}                                 \* "Shift limit?"
QBikes == {"where", "can", "interns", "park", "bikes", "travel", "overnight"}
QMoney == {"$", "?"}                                         \* "$ ?"
Questions == {QMeals, QSpace, QHotel, QShift, QBikes, QMoney}

\* re.split(r'[^a-z0-9]+', q): the symbols are separators, never words.  A
\* two-word phrase a pattern looks for is noted in the question next to its
\* words and is no word either.
IsAlnum(t) == t \notin {"$", "?", "how much", "per day", "per night", "on call"}

\* str.lower() and re.IGNORECASE, on the tokens a question spells with capitals.
Lower(t) ==
    CASE t = "LIMIT" -> "limit" [] t = "Max" -> "max" [] t = "Hotel" -> "hotel"
      [] t = "Monday" -> "monday" [] t = "Tuesday" -> "tuesday" [] t = "Friday" -> "friday"
      [] t = "January" -> "january" [] t = "February" -> "february" [] t = "April" -> "april"
      [] t = "November" -> "november" [] t = "December" -> "december"
      [] OTHER -> t

LowerAll(question) == {Lower(t) : t \in question}

Roles == {"public", "internal", "confidential", "restricted"}

\* Chunk contents: [words |-> vocabulary tokens occurring in it, short |-> len < 80].
TitleChunk == [words |-> {"travel", "policy"}, short |-> TRUE]
TableChunk == [words |-> {"limit", "meals", "hotel"}, short |-> FALSE]
MealsChunk == [words |-> {"the", "meals", "limit"}, short |-> FALSE]
HotelChunk == [words |-> {"hotel", "limit"}, short |-> FALSE]
PerksChunk == [words |-> {"what", "the", "meals", "limit", "hotel"}, short |-> TRUE]
TheChunk == [words |-> {"the"}, short |-> FALSE]
LimitNote == [words |-> {"limit"}, short |-> TRUE]
WhatTheChunk == [words |-> {"what", "the"}, short |-> FALSE]
MealsNote == [words |-> {"meals"}, short |-> FALSE]

\* The /ingest requests of a run (title omitted; content already split on blank lines).
SeedTravel == [policyKey |-> "travel_policy", effectiveDate |-> 1, access |-> "internal",
               content |-> <<TitleChunk, TableChunk>>]
Travel2026 == [policyKey |-> "travel_policy", effectiveDate |-> 2, access |-> "internal",
               content |-> <<MealsChunk, HotelChunk>>]
Perks == [policyKey |-> "perks", effectiveDate |-> 1, access |-> "public",
          content |-> <<PerksChunk>>]
ExecPay == [policyKey |-> "exec_pay", effectiveDate |-> 1, access |-> "restricted",
            content |-> <<MealsChunk>>]
\* The handbook of seed_handbook.py: one internal document of many chunks.
Handbook == [policyKey |-> "employee_handbook", effectiveDate |-> 1, access |-> "internal",
             content |-> <<TitleChunk, TableChunk, MealsChunk, HotelChunk, PerksChunk,
                           TheChunk, LimitNote, WhatTheChunk, MealsNote>>]
IngestRequests == {SeedTravel, Travel2026, Perks, ExecPay}

VARIABLES
    documents,        \* table documents, in rowid order
    chunks,           \* table chunks, in rowid order
    review_queue,     \* table review_queue, in rowid order
    schedule_config,  \* table schedule_config: no row, or the row with id = 1
    clock,            \* int(time.time() * 1000)
    env,              \* os.environ: LLM_ENABLED, LLM_PROVIDER
    ask,              \* the /chat/ask request in flight: its position and locals
    suspended,        \* a second /chat/ask in flight, while the first one runs
    resp              \* what the latest finished request ended with

vars == <<documents, chunks, review_queue, schedule_config, clock, env, ask, suspended, resp>>

\* ------------------------------------------------------------- retrieval.py
uid(prefix, rand) == <<prefix, rand, clock>>

clamp(n, a, b) == IF n < a THEN a ELSE IF n > b THEN b ELSE n

\* chunk_text_to_chunks: one chunk per part, ids drawn by uid, page 1-1.
chunk_text_to_chunks(doc_id, content, access, rands) ==
    [idx \in 1..Len(content) |->
        [id |-> uid("chunk", rands[idx]), doc_id |-> doc_id, chunk_index |-> idx - 1,
         page_start |-> 1, content |-> content[idx], access |-> access]]

\* q_words with the words of fewer than 3 characters kept.
q_words_any_length(question) == {w \in LowerAll(question) : IsAlnum(w)}

q_words(question) == {w \in LowerAll(question) : IsAlnum(w) /\ Len(w) >= 3}

\* Penalty charged to the long contents instead of the short ones.
PenaltyLong(content) == IF content.short THEN 0 ELSE (8 * Scale) \div 100

Penalty(content) == IF content.short THEN (8 * Scale) \div 100 ELSE 0

score_chunk(question, content) ==
    LET qw == q_words(question)
        hit == Cardinality({w \in qw : w \in content.words})
    IN  IF Cardinality(qw) = 0 THEN Scale
        ELSE clamp((Scale - (hit * Scale) \div Cardinality(qw)) + Penalty(content), 0, Scale)

\* round(dist, 3), in thousandths (no distance of the model is a rounding tie).
round3(dist) == (2000 * dist + Scale) \div (2 * Scale)

wants_number(question) ==
    LowerAll(question) \cap {"limit", "how much", "maximum", "max", "per day", "per night",
                             "$", "dollar"} # {}

SeqToSet(s) == {s[i] : i \in DOMAIN s}

\* detect_conflict without the test on the number of documents.
detect_conflict_dates_only(citations, question) ==
    IF ~wants_number(question) THEN FALSE
    ELSE Cardinality({<<c.pageStart, c.docId>> : c \in SeqToSet(citations)}) >= 2

detect_conflict(citations, question) ==
    IF ~wants_number(question) THEN FALSE
    ELSE LET dates == {<<c.pageStart, c.docId>> : c \in SeqToSet(citations)}
             unique_docs == Cardinality({c.docId : c \in SeqToSet(citations)})
         IN  unique_docs >= 2 /\ Cardinality(dates) >= 2

mention_schedule(question) ==
    LowerAll(question) \cap {"schedule", "shift", "oncall", "on-call", "on call",
                             "availability", "hours", "holiday"} # {}

\* build_answer: the schedule redirect, the not-found sentence, else one chat
\* completion requested from LM Studio, whose outcome is lm.
LmOutcomes == {"completed", "failed"}

build_answer(question, citations, role, lm) ==
    IF mention_schedule(question) THEN "schedule_redirect"
    ELSE IF citations = <<>> THEN "not_found_for_role"
    ELSE IF lm = "completed" THEN "lm_studio_text" ELSE "lm_studio_error"

build_answer_calls(question, citations) ==
    IF mention_schedule(question) \/ citations = <<>> THEN 0 ELSE 1

\* confidence_from_distance with < in place of <=.
confidence_from_distance_strict(best_distance) ==
    IF best_distance < 350 THEN "High"
    ELSE IF best_distance < 600 THEN "Medium"
    ELSE "Low"

confidence_from_distance(best_distance) ==
    IF best_distance <= 350 THEN "High"
    ELSE IF best_distance <= 600 THEN "Medium"
    ELSE "Low"


\* ------------------------------------------------------------------- llm.py
LLMResult(answer, confidence, escalate, used_chunk_ids) ==
    [answer |-> answer, confidence |-> confidence, escalate |-> escalate,
     used_chunk_ids |-> used_chunk_ids]

\* _mock_chat with candidates # [] (ask_policy never calls it with none).
\* used_chunk_ids is kept as the set of the listed ids: the caller only tests
\* it for emptiness and membership.
_mock_chat(candidates, best_distance) ==
    LET confidence == IF best_distance > 600 THEN "Low"
                      ELSE IF best_distance > 400 THEN "Medium" ELSE "High"
    IN  LLMResult("mock_answer", confidence, FALSE,
                  {candidates[i].chunkId : i \in 1..(IF Len(candidates) < 2 THEN Len(candidates) ELSE 2)})

\* What the call to {base_url}/chat/completions can end with:
\*   failed    - timeout, transport error, non-2xx status, body that is not JSON,
\*               no choices: the outer except of _openai_chat
\*   text      - a completion whose content is not JSON: the inner except
\*   malformed - JSON content whose fields LLMResult rejects (used_chunk_ids not
\*               a list of strings, escalate not a boolean, content not an object):
\*               the ValidationError is raised inside the outer try
\*   json      - JSON content LLMResult accepts; confidence is any string
BogusId == <<"chunk", 0, MaxClock + 1>>
ConfidenceLabels == {"High", "Medium", "Low"}
ProviderLabels == ConfidenceLabels \cup {"Very High"}

\* The used_chunk_ids a completion may name: none, an id that is no candidate's,
\* the first or the last candidate's, or a mix.
UsedChunkIds(candidates) ==
    {{}, {BogusId}, {candidates[1].chunkId}, {candidates[Len(candidates)].chunkId},
     {BogusId, candidates[Len(candidates)].chunkId}}

ProviderOutcomes(candidates) ==
    {[kind |-> k] : k \in {"failed", "text", "malformed"}}
    \cup [kind : {"json"}, confidence : ProviderLabels, escalate : BOOLEAN,
          used_chunk_ids : UsedChunkIds(candidates)]

_openai_chat(outcome) ==
    CASE outcome.kind = "text" -> LLMResult("provider_text_excerpt", "Low", TRUE, {})
      [] outcome.kind = "json" ->
            LLMResult("provider_answer", outcome.confidence, outcome.escalate, outcome.used_chunk_ids)
      [] OTHER -> LLMResult("provider_unreachable", "Low", TRUE, {})

compose_answer(provider, candidates, best_distance, outcome) ==
    IF provider = "openai" THEN _openai_chat(outcome)
    ELSE _mock_chat(candidates, best_distance)

\* ------------------------------------------------------------------ main.py
NoAsk == [pc |-> "idle"]
NoResp == [op |-> "none", status |-> 0]

Ids(table) == {table[i].id : i \in DOMAIN table}

\* POST /ingest.  A primary-key clash raises IntegrityError before db.commit():
\* the request ends in an error and nothing of it is stored.
Ingest(req, rand, rands) ==
    LET doc_id == uid("doc", rand)
        new == chunk_text_to_chunks(doc_id, req.content, req.access, rands)
        clash == \/ doc_id \in Ids(documents)
                 \/ \E i \in DOMAIN new : new[i].id \in Ids(chunks)
                 \/ \E i, j \in DOMAIN new : i # j /\ new[i].id = new[j].id
    IN  /\ Len(documents) < MaxDocs
        /\ IF clash
           THEN /\ resp' = [op |-> "ingest", status |-> 500]
                /\ UNCHANGED <<documents, chunks>>
           ELSE /\ documents' = Append(documents,
                        [id |-> doc_id, policy_key |-> req.policyKey,
                         effective_date |-> req.effectiveDate, access |-> req.access,
                         created_at |-> clock])
                /\ chunks' = chunks \o new
                /\ resp' = [op |-> "ingest", status |-> 200]
        /\ UNCHANGED <<review_queue, schedule_config, clock, env, suspended, ask>>

\* allowed_access with every label granted to every role.
allowed_access_all(role) == {"public", "internal", "confidential", "restricted"}

allowed_access(role) ==
    CASE role = "public" -> {"public"}
      [] role = "internal" -> {"public", "internal"}
      [] role = "confidential" -> {"public", "internal", "confidential"}
      [] role = "restricted" -> {"public", "internal", "confidential", "restricted"}
      [] OTHER -> {"public", "internal"}

\* newest_by_key with the date comparison turned round: the oldest row stays.
RECURSIVE oldest_by_key(_, _, _)
oldest_by_key(rows, i, acc) ==
    IF i > Len(rows) THEN acc
    ELSE LET d == rows[i]
             take == d.policy_key \notin DOMAIN acc
                     \/ d.effective_date < acc[d.policy_key].effective_date
         IN  oldest_by_key(rows, i + 1,
                IF take
                THEN [k \in DOMAIN acc \cup {d.policy_key} |->
                        IF k = d.policy_key THEN d ELSE acc[k]]
                ELSE acc)

\* The loop over the documents rows: the first row of a key with the greatest
\* effective date stays.
RECURSIVE newest_by_key(_, _, _)
newest_by_key(rows, i, acc) ==
    IF i > Len(rows) THEN acc
    ELSE LET d == rows[i]
             take == d.policy_key \notin DOMAIN acc
                     \/ d.effective_date > acc[d.policy_key].effective_date
         IN  newest_by_key(rows, i + 1,
                IF take
                THEN [k \in DOMAIN acc \cup {d.policy_key} |->
                        IF k = d.policy_key THEN d ELSE acc[k]]
                ELSE acc)

EmptyMap == [k \in {} |-> Null]

valid_doc_ids_of(rows) ==
    LET newest == newest_by_key(rows, 1, EmptyMap)
    IN  {newest[k].id : k \in DOMAIN newest}

\* scored.sort(key=dist): a stable sort, ascending.
RECURSIVE InsertSorted(_, _)
InsertSorted(sorted, x) ==
    IF sorted = <<>> THEN <<x>>
    ELSE IF sorted[Len(sorted)].dist <= x.dist THEN Append(sorted, x)
    ELSE Append(InsertSorted(SubSeq(sorted, 1, Len(sorted) - 1), x), sorted[Len(sorted)])

RECURSIVE SortByDist(_)
SortByDist(s) ==
    IF s = <<>> THEN <<>>
    ELSE InsertSorted(SortByDist(SubSeq(s, 1, Len(s) - 1)), s[Len(s)])

Take(s, n) == SubSeq(s, 1, IF Len(s) < n THEN Len(s) ELSE n)

Threshold(hundredths) == (hundredths * Scale) \div 100

Citation(item) ==
    [chunkId |-> item.c.id, docId |-> item.c.doc_id, pageStart |-> item.c.page_start,
     distance |-> round3(item.dist)]

MapCitation(items) == [i \in DOMAIN items |-> Citation(items[i])]

scored_of(question, rows) ==
    SortByDist([i \in DOMAIN rows |-> [c |-> rows[i], dist |-> score_chunk(question, rows[i].content)]])

IsCited(item) == item.dist < Threshold(95)

\* citations_of without the cut to the first 6 of scored.
citations_of_uncut(scored) == MapCitation(SelectSeq(scored, IsCited))

citations_of(scored) == MapCitation(SelectSeq(Take(scored, 6), IsCited))


\* The escalation gate and the return of ask_policy (main.py 234-263), from the
\* locals l of the request.  INSERT raises IntegrityError on a taken id; the
\* response model QAAnswer rejects a confidence outside its Literal after the
\* review item has been committed.  Either way the caller gets an error.
Reason(l) == IF l.not_found THEN "not_found" ELSE IF l.conflict THEN "conflict" ELSE "low_confidence"

\* ReviewRow with the draft answer stored even for a question that was not found.
ReviewRowAlwaysDraft(l, review_id) ==
    [id |-> review_id, question |-> l.question, reason |-> Reason(l), status |-> "open",
     draft_answer |-> l.answer,
     draft_citations |-> l.citations, final_answer |-> Null,
     created_at |-> clock, resolved_at |-> NoTime]

ReviewRow(l, review_id) ==
    [id |-> review_id, question |-> l.question, reason |-> Reason(l), status |-> "open",
     draft_answer |-> IF l.not_found THEN Null ELSE l.answer,
     draft_citations |-> l.citations, final_answer |-> Null,
     created_at |-> clock, resolved_at |-> NoTime]

\* Gate with bestDistance taken from the citations that are returned.
GateFirstReturned(l, rand) ==
    LET review_id == uid("rev", rand)
        clash == l.low_confidence /\ review_id \in Ids(review_queue)
        invalid == l.confidence \notin ConfidenceLabels
    IN  /\ review_queue' = IF l.low_confidence /\ ~clash
                           THEN Append(review_queue, ReviewRow(l, review_id))
                           ELSE review_queue
        /\ resp' = [op |-> "ask_policy", status |-> IF clash \/ invalid THEN 500 ELSE 200,
                    error |-> IF clash THEN "IntegrityError"
                              ELSE IF invalid THEN "ResponseValidationError" ELSE "none",
                    path |-> "gate",
                    answer |-> l.answer, citations |-> l.citations,
                    confidence |-> l.confidence,
                    bestDistance |-> IF l.citations = <<>> THEN 1000
                                     ELSE l.citations[1].distance,
                    lowConfidence |-> l.low_confidence,
                    reviewId |-> IF l.low_confidence THEN review_id ELSE NoId,
                    locals |-> l]
        /\ ask' = NoAsk

Gate(l, rand) ==
    LET review_id == uid("rev", rand)
        clash == l.low_confidence /\ review_id \in Ids(review_queue)
        invalid == l.confidence \notin ConfidenceLabels
    IN  /\ review_queue' = IF l.low_confidence /\ ~clash
                           THEN Append(review_queue, ReviewRow(l, review_id))
                           ELSE review_queue
        /\ resp' = [op |-> "ask_policy", status |-> IF clash \/ invalid THEN 500 ELSE 200,
                    error |-> IF clash THEN "IntegrityError"
                              ELSE IF invalid THEN "ResponseValidationError" ELSE "none",
                    path |-> "gate",
                    answer |-> l.answer, citations |-> l.citations,
                    confidence |-> l.confidence, bestDistance |-> l.best_distance,
                    lowConfidence |-> l.low_confidence,
                    reviewId |-> IF l.low_confidence THEN review_id ELSE NoId,
                    locals |-> l]
        /\ ask' = NoAsk

\* ask_policy up to the documents query (main.py 112-148).
AskStart(question, role) ==
    /\ ask.pc = "idle"
    /\ Len(review_queue) < MaxReviews
    /\ LET valid_doc_ids == valid_doc_ids_of(documents)
       IN  IF valid_doc_ids = {}
           THEN /\ resp' = [op |-> "ask_policy", status |-> 200, error |-> "none",
                            path |-> "no_documents",
                            answer |-> "no_documents_found", citations |-> <<>>,
                            confidence |-> "Low", bestDistance |-> 1000,
                            lowConfidence |-> TRUE, reviewId |-> NoId,
                            locals |-> [question |-> question, role |-> role,
                                        doc_rows |-> documents,
                                        lm_calls |-> 0, provider_calls |-> 0]]
                /\ ask' = ask
           ELSE /\ ask' = [pc |-> "chunks",
                           l |-> [question |-> question, role |-> role,
                                  doc_rows |-> documents,
                                  valid_doc_ids |-> valid_doc_ids]]
                /\ resp' = NoResp
    /\ UNCHANGED <<documents, chunks, review_queue, schedule_config, clock, env, suspended>>

\* Retrieved with the low-confidence test best_distance >= 0.5 in place of > 0.5.
RetrievedAtLeastHalf(a, lm) ==
    LET rows == SelectSeq(chunks, LAMBDA c : c.doc_id \in a.valid_doc_ids
                                            /\ c.access \in allowed_access(a.role))
        scored == scored_of(a.question, rows)
        citations == citations_of(scored)
        best_distance == IF citations # <<>> THEN citations[1].distance ELSE 1000
        conflict == detect_conflict(citations, a.question)
        not_found == Len(citations) = 0 \/ best_distance >= 900
        low_confidence == not_found \/ best_distance >= 500 \/ conflict
        answer == build_answer(a.question, citations, a.role, lm)
    IN  [question |-> a.question, role |-> a.role, doc_rows |-> a.doc_rows, scored |-> scored,
         citations |-> citations, best_distance |-> best_distance,
         confidence |-> confidence_from_distance(best_distance),
         conflict |-> conflict, not_found |-> not_found,
         low_confidence |-> low_confidence, answer |-> answer,
         template |-> [answer |-> answer, citations |-> citations,
                       confidence |-> confidence_from_distance(best_distance),
                       low_confidence |-> low_confidence],
         lm_calls |-> build_answer_calls(a.question, citations),
         provider_calls |-> 0, consulted |-> FALSE, outcome |-> Null, llm_result |-> Null]

\* The locals of ask_policy after build_answer (main.py 150-198).
Retrieved(a, lm) ==
    LET rows == SelectSeq(chunks, LAMBDA c : c.doc_id \in a.valid_doc_ids
                                            /\ c.access \in allowed_access(a.role))
        scored == scored_of(a.question, rows)
        citations == citations_of(scored)
        best_distance == IF citations # <<>> THEN citations[1].distance ELSE 1000
        conflict == detect_conflict(citations, a.question)
        not_found == Len(citations) = 0 \/ best_distance >= 900
        low_confidence == not_found \/ best_distance > 500 \/ conflict
        answer == build_answer(a.question, citations, a.role, lm)
    IN  [question |-> a.question, role |-> a.role, doc_rows |-> a.doc_rows, scored |-> scored,
         citations |-> citations, best_distance |-> best_distance,
         confidence |-> confidence_from_distance(best_distance),
         conflict |-> conflict, not_found |-> not_found,
         low_confidence |-> low_confidence, answer |-> answer,
         template |-> [answer |-> answer, citations |-> citations,
                       confidence |-> confidence_from_distance(best_distance),
                       low_confidence |-> low_confidence],
         lm_calls |-> build_answer_calls(a.question, citations),
         provider_calls |-> 0, consulted |-> FALSE, outcome |-> Null, llm_result |-> Null]

\* ask_policy from the chunks query to the provider call, or to its return
\* when the provider is not consulted (main.py 150-201, 234-263).
AskRetrieve(lm, rand) ==
    /\ ask.pc = "chunks"
    /\ LET l == Retrieved(ask.l, lm)
       IN  IF env.LLM_ENABLED /\ l.citations # <<>>
           THEN /\ ask' = [pc |-> "compose", l |-> l]
                /\ resp' = NoResp
                /\ UNCHANGED review_queue
           ELSE Gate(l, rand)
    /\ UNCHANGED <<documents, chunks, schedule_config, clock, env, suspended>>


\* Composed without the fallback: a narrowing that removes every citation stands.
ComposedNoFallback(l, outcome, llm_result) ==
    LET narrowed == SelectSeq(l.citations, LAMBDA c : c.chunkId \in llm_result.used_chunk_ids)
        citations == IF llm_result.used_chunk_ids = {} THEN l.citations ELSE narrowed
    IN  [l EXCEPT !.answer = llm_result.answer,
                  !.confidence = llm_result.confidence,
                  !.low_confidence = IF llm_result.escalate THEN TRUE ELSE @,
                  !.citations = citations,
                  !.provider_calls = IF env.LLM_PROVIDER = "openai" THEN 1 ELSE 0,
                  !.consulted = TRUE,
                  !.outcome = outcome,
                  !.llm_result = llm_result]

\* The provider branch of ask_policy applied to the result of compose_answer
\* (main.py 204-228).  The fallback rebuilds the citations from scored.
Composed(l, outcome, llm_result) ==
    LET narrowed == SelectSeq(l.citations, LAMBDA c : c.chunkId \in llm_result.used_chunk_ids)
        rebuilt == Take(MapCitation(SelectSeq(l.scored, IsCited)), 6)
        citations == IF llm_result.used_chunk_ids = {} THEN l.citations
                     ELSE IF narrowed = <<>> /\ Len(l.citations) > 0 THEN rebuilt
                     ELSE narrowed
    IN  [l EXCEPT !.answer = llm_result.answer,
                  !.confidence = llm_result.confidence,
                  !.low_confidence = IF llm_result.escalate THEN TRUE ELSE @,
                  !.citations = citations,
                  !.provider_calls = IF env.LLM_PROVIDER = "openai" THEN 1 ELSE 0,
                  !.consulted = TRUE,
                  !.outcome = outcome,
                  !.llm_result = llm_result]

\* ask_policy from the return of compose_answer on (main.py 203-263), with the
\* deterministic mock provider.
AskComposeMock(rand) ==
    /\ ask.pc = "compose"
    /\ env.LLM_PROVIDER = "mock"
    /\ Gate(Composed(ask.l, [kind |-> "mock"],
                     compose_answer("mock", ask.l.citations, ask.l.best_distance, Null)), rand)
    /\ UNCHANGED <<documents, chunks, schedule_config, clock, env, suspended>>

\* The same with the OpenAI-compatible provider, whose call ends with outcome.
AskComposeOpenAI(rand) ==
    /\ ask.pc = "compose"
    /\ env.LLM_PROVIDER = "openai"
    /\ \E outcome \in ProviderOutcomes(ask.l.citations) :
          Gate(Composed(ask.l, outcome,
                        compose_answer("openai", ask.l.citations, ask.l.best_distance, outcome)), rand)
    /\ UNCHANGED <<documents, chunks, schedule_config, clock, env, suspended>>

\* GET /review?status=...: ORDER BY created_at DESC over the matching rows.
RECURSIVE InsertByCreated(_, _)
InsertByCreated(sorted, r) ==
    IF sorted = <<>> THEN <<r>>
    ELSE IF sorted[Len(sorted)].created_at >= r.created_at THEN Append(sorted, r)
    ELSE Append(InsertByCreated(SubSeq(sorted, 1, Len(sorted) - 1), r), sorted[Len(sorted)])

RECURSIVE OrderByCreatedDesc(_)
OrderByCreatedDesc(s) ==
    IF s = <<>> THEN <<>>
    ELSE InsertByCreated(OrderByCreatedDesc(SubSeq(s, 1, Len(s) - 1)), s[Len(s)])

StatusFilters == {Null, "open", "resolved"}

\* list_review without the WHERE status = ? clause.
list_review_unfiltered(status) == OrderByCreatedDesc(review_queue)

list_review(status) ==
    OrderByCreatedDesc(SelectSeq(review_queue, LAMBDA r : status = Null \/ r.status = status))

ListReview(status) ==
    /\ resp' = [op |-> "list_review", status |-> 200, filter |-> status,
                items |-> list_review(status)]
    /\ UNCHANGED <<documents, chunks, review_queue, schedule_config, clock, env, suspended, ask>>

\* POST /review/{id}/resolve: the UPDATE has no condition on status.
UnknownReviewId == <<"rev", 0, MaxClock + 1>>
FinalAnswers == {"final_a", "final_b"}

\* resolve_rows with the WHERE id = ? clause left out of the UPDATE.
resolve_rows_all(id, finalAnswer) ==
    [i \in DOMAIN review_queue |->
        [review_queue[i] EXCEPT !.status = "resolved", !.final_answer = finalAnswer,
                                !.resolved_at = clock]]

resolve_rows(id, finalAnswer) ==
    [i \in DOMAIN review_queue |->
        IF review_queue[i].id = id
        THEN [review_queue[i] EXCEPT !.status = "resolved", !.final_answer = finalAnswer,
                                     !.resolved_at = clock]
        ELSE review_queue[i]]

resolve_review(id, finalAnswer) ==
    /\ review_queue' = resolve_rows(id, finalAnswer)
    /\ resp' = [op |-> "resolve_review", id |-> id, finalAnswer |-> finalAnswer,
                status |-> IF id \in Ids(review_queue) THEN 200 ELSE 404]
    /\ UNCHANGED <<documents, chunks, schedule_config, clock, env, suspended, ask>>

\* A date text "YYYY-MM-DD" is the sequence of its characters: a digit is its
\* value and "-" is Dash, which sorts before every digit as in the code's string
\* comparison.
Dash == -1

Digits2(n) == <<n \div 10, n % 10>>
Digits4(n) == <<n \div 1000, (n \div 100) % 10, (n \div 10) % 10, n % 10>>

\* strftime("%Y-%m-%d"): zero-padded.
strftime(y, m, d) == Digits4(y) \o <<Dash>> \o Digits2(m) \o <<Dash>> \o Digits2(d)

\* The same day written without the zero of a one-digit month.
Unpadded(y, m, d) == Digits4(y) \o <<Dash>> \o <<m>> \o <<Dash>> \o Digits2(d)

RECURSIVE Num(_)
Num(digits) ==
    IF digits = <<>> THEN 0
    ELSE 10 * Num(SubSeq(digits, 1, Len(digits) - 1)) + digits[Len(digits)]

IsLeap(y) == y % 4 = 0 /\ (y % 100 # 0 \/ y % 400 = 0)

DaysIn(y, m) ==
    IF m = 2 THEN (IF IsLeap(y) THEN 29 ELSE 28)
    ELSE IF m \in {4, 6, 9, 11} THEN 30 ELSE 31

\* datetime.strptime(text, "%Y-%m-%d"): four digits, one or two, one or two;
\* ok is FALSE where it raises ValueError.
NoDate == [ok |-> FALSE, y |-> 0, m |-> 0, d |-> 0]

strptime(text) ==
    LET n == Len(text)
        forms == {f \in {1, 2} \X {1, 2} :
                     /\ n = 6 + f[1] + f[2]
                     /\ text[5] = Dash /\ text[6 + f[1]] = Dash
                     /\ \A i \in (1..n) \ {5, 6 + f[1]} : text[i] \in 0..9}
    IN  IF forms = {} THEN NoDate
        ELSE LET f == CHOOSE g \in forms : TRUE
                 y == Num(SubSeq(text, 1, 4))
                 m == Num(SubSeq(text, 6, 5 + f[1]))
                 d == Num(SubSeq(text, 7 + f[1], n))
             IN  IF m \in 1..12 /\ d >= 1 /\ d <= DaysIn(y, m)
                 THEN [ok |-> TRUE, y |-> y, m |-> m, d |-> d]
                 ELSE NoDate

\* dt1 <= dt2 on datetime values.
DateLeq(a, b) ==
    \/ a.y < b.y
    \/ a.y = b.y /\ a.m < b.m
    \/ a.y = b.y /\ a.m = b.m /\ a.d <= b.d

\* a >= b on str values: character by character, the shorter first on a tie.
TextGeq(a, b) ==
    LET n == IF Len(a) < Len(b) THEN Len(a) ELSE Len(b)
        diff == {i \in 1..n : a[i] # b[i]}
    IN  IF diff = {} THEN Len(a) >= Len(b)
        ELSE LET i == CHOOSE k \in diff : \A h \in diff : k <= h
             IN  a[i] > b[i]

\* The schedules POST /schedule is given.  An entry carries the keys the
\* handler reads; an absent note, on-call list or holiday list is Null or <<>>.
SeedSchedule ==
    [timezone |-> "America/New_York",
     week |-> <<[day |-> "Monday", start |-> "08:00", end |-> "17:00", note |-> Null],
                [day |-> "Tuesday", start |-> "08:00", end |-> "17:00", note |-> Null]>>,
     oncall |-> <<>>,
     holidays |-> <<[date |-> strftime(2026, 1, 1), name |-> "New Year's Day"],
                    [date |-> strftime(2026, 4, 3), name |-> "Personal Day"],
                    [date |-> strftime(2026, 11, 26), name |-> "Thanksgiving"],
                    [date |-> strftime(2026, 11, 27), name |-> "Day after Thanksgiving"],
                    [date |-> strftime(2026, 12, 25), name |-> "Christmas Day"]>>]

NightSchedule ==
    [timezone |-> "UTC",
     week |-> <<[day |-> "Friday", start |-> "22:00", end |-> "06:00", note |-> "night"],
                [day |-> "Monday", start |-> "20:00", end |-> "04:00", note |-> Null],
                [day |-> "Monday", start |-> "09:00", end |-> "10:00", note |-> Null]>>,
     oncall |-> <<[from |-> strftime(2026, 1, 5), to |-> strftime(2026, 1, 12), note |-> "pager"]>>,
     holidays |-> <<[date |-> strftime(2026, 12, 31), name |-> "Year End"],
                    [date |-> strftime(2026, 12, 1), name |-> "Founders Day"],
                    [date |-> strftime(2026, 13, 1), name |-> "Thirteenth"],
                    [date |-> Unpadded(2026, 4, 6), name |-> "Spring Day"],
                    [date |-> strftime(2027, 12, 24), name |-> "Next Eve"]>>]

ScheduleConfigs == {SeedSchedule, NightSchedule}

\* cfg.json(): the text of the four fields of ScheduleConfig, as the sequence of
\* its members, each a key and a value; json.dumps gives the same members.
json(cfg) ==
    <<<<"timezone", cfg.timezone>>, <<"week", cfg.week>>,
      <<"oncall", cfg.oncall>>, <<"holidays", cfg.holidays>>>>

\* json.loads: the object of the members of the text.
loads(blob) ==
    LET Member(key) == blob[CHOOSE i \in DOMAIN blob : blob[i][1] = key][2]
    IN  [timezone |-> Member("timezone"), week |-> Member("week"),
         oncall |-> Member("oncall"), holidays |-> Member("holidays")]

\* INSERT OR REPLACE INTO schedule_config: a row of the same id is deleted, then
\* the row is inserted.  updated_at is written with the row and read by no handler.
insert_or_replace(rows, row) == SelectSeq(rows, LAMBDA r : r.id # row.id) \o <<row>>

\* set_schedule keeping the stored on-call and holiday lists where the new
\* configuration has none.
set_schedule_merging(cfg) ==
    LET old == IF schedule_config = <<>> THEN cfg ELSE loads(schedule_config[1].json_blob)
        merged == [timezone |-> cfg.timezone, week |-> cfg.week,
                   oncall |-> IF cfg.oncall = <<>> THEN old.oncall ELSE cfg.oncall,
                   holidays |-> IF cfg.holidays = <<>> THEN old.holidays ELSE cfg.holidays]
    IN  /\ schedule_config' = insert_or_replace(schedule_config,
                                                [id |-> 1, json_blob |-> json(merged)])
        /\ resp' = [op |-> "set_schedule", status |-> 200, cfg |-> cfg]
        /\ UNCHANGED <<documents, chunks, review_queue, clock, env, suspended, ask>>

\* POST /schedule; resp keeps the configuration that was posted.
set_schedule(cfg) ==
    /\ schedule_config' = insert_or_replace(schedule_config, [id |-> 1, json_blob |-> json(cfg)])
    /\ resp' = [op |-> "set_schedule", status |-> 200, cfg |-> cfg]
    /\ UNCHANGED <<documents, chunks, review_queue, clock, env, suspended, ask>>

\* GET /schedule: body is empty for None, else holds the configuration.
get_schedule ==
    /\ resp' = [op |-> "get_schedule", status |-> 200,
                body |-> IF schedule_config = <<>> THEN <<>>
                         ELSE <<loads(schedule_config[1].json_blob)>>]
    /\ UNCHANGED <<documents, chunks, review_queue, schedule_config, clock, env, suspended, ask>>

\* seed.py: the travel policy where the store has none, then the default
\* schedule, in one transaction; a primary-key clash ends the script before the
\* commit.
seed(rand, rands) ==
    LET existing == \E i \in DOMAIN documents : documents[i].policy_key = "travel_policy"
        doc_id == uid("doc", rand)
        new == chunk_text_to_chunks(doc_id, SeedTravel.content, "internal", rands)
        clash == \/ doc_id \in Ids(documents)
                 \/ \E i \in DOMAIN new : new[i].id \in Ids(chunks)
                 \/ \E i, j \in DOMAIN new : i # j /\ new[i].id = new[j].id
    IN  /\ existing \/ Len(documents) < MaxDocs
        /\ IF ~existing /\ clash
           THEN /\ resp' = [op |-> "seed", status |-> 1]
                /\ UNCHANGED <<documents, chunks, schedule_config>>
           ELSE /\ IF existing THEN UNCHANGED <<documents, chunks>>
                   ELSE /\ documents' = Append(documents,
                               [id |-> doc_id, policy_key |-> "travel_policy",
                                effective_date |-> SeedTravel.effectiveDate,
                                access |-> "internal", created_at |-> clock])
                        /\ chunks' = chunks \o new
                /\ schedule_config' = insert_or_replace(schedule_config,
                                          [id |-> 1, json_blob |-> json(SeedSchedule)])
                /\ resp' = [op |-> "seed", status |-> 0]
        /\ UNCHANGED <<review_queue, clock, env, suspended, ask>>

\* POST /schedule/ask.  The question is the set of the patterns and names that
\* occur in it; the answer is named by the sentence that is returned, with the
\* values it is filled with (the month by its number).
Months == <<"january", "february", "march", "april", "may", "june", "july", "august",
            "september", "october", "november", "december">>

RECURSIVE InsertByDate(_, _)
InsertByDate(sorted, h) ==
    IF sorted = <<>> THEN <<h>>
    ELSE IF DateLeq(sorted[Len(sorted)].date, h.date) THEN Append(sorted, h)
    ELSE Append(InsertByDate(SubSeq(sorted, 1, Len(sorted) - 1), h), sorted[Len(sorted)])

\* SortByDate left out: the holidays stay in the order of the configuration.
ConfiguredOrder(s) == s

\* parsed_holidays.sort(key=date): a stable sort, ascending.
RECURSIVE SortByDate(_)
SortByDate(s) ==
    IF s = <<>> THEN <<>>
    ELSE InsertByDate(SortByDate(SubSeq(s, 1, Len(s) - 1)), s[Len(s)])

\* The holidays whose date parses, sorted; the others are skipped.
parsed_holidays_of(holidays) ==
    SortByDate(SelectSeq([i \in DOMAIN holidays |->
                             [date |-> strptime(holidays[i].date), raw |-> holidays[i]]],
                         LAMBDA p : p.date.ok))

Raw(parsed) == [i \in DOMAIN parsed |-> parsed[i].raw]

\* ask_schedule with the weekday rule tried before the holiday rule.
ask_schedule_weekday_first(rows, question, today) ==
    IF rows = <<>> THEN [rule |-> "no_schedule"]
    ELSE LET s == loads(rows[1].json_blob)
             q == LowerAll(question)
             days == {i \in DOMAIN s.week : Lower(s.week[i].day) \in q}
             day == s.week[CHOOSE i \in days : \A k \in days : i <= k]
         IN  IF days # {}
             THEN [rule |-> "weekday", day |-> day.day, start |-> day.start, end |-> day.end,
                   note |-> day.note, timezone |-> s.timezone]
             ELSE IF "holiday" \in q THEN [rule |-> "no_holidays_configured"]
             ELSE [rule |-> "help"]

ask_schedule(rows, question, today) ==
    IF rows = <<>> THEN [rule |-> "no_schedule"]
    ELSE LET s == loads(rows[1].json_blob)
             q == LowerAll(question)
             parsed_holidays == parsed_holidays_of(s.holidays)
             named == {i \in DOMAIN Months : Months[i] \in q}
             target_month == CHOOSE i \in named : \A k \in named : i <= k
             found == Raw(SelectSeq(parsed_holidays, LAMBDA p : p.date.m = target_month))
             upcoming == Raw(SelectSeq(parsed_holidays, LAMBDA p : TextGeq(p.raw.date, today)))
             days == {i \in DOMAIN s.week : Lower(s.week[i].day) \in q}
             day == s.week[CHOOSE i \in days : \A k \in days : i <= k]
         IN  IF "holiday" \in q
             THEN IF s.holidays = <<>> THEN [rule |-> "no_holidays_configured"]
                  ELSE IF named # {}
                  THEN IF found = <<>>
                       THEN [rule |-> "no_holidays_in_month", month |-> target_month]
                       ELSE [rule |-> "holidays_in_month", month |-> target_month,
                             listed |-> found, timezone |-> s.timezone]
                  ELSE IF upcoming = <<>> THEN [rule |-> "no_upcoming_holidays"]
                  ELSE [rule |-> "next_holiday", name |-> upcoming[1].name,
                        date |-> upcoming[1].date, timezone |-> s.timezone]
             ELSE IF days # {}
             THEN [rule |-> "weekday", day |-> day.day, start |-> day.start, end |-> day.end,
                   note |-> day.note, timezone |-> s.timezone]
             ELSE IF "oncall" \in q \/ "on-call" \in q
             THEN IF s.oncall = <<>> THEN [rule |-> "no_oncall_configured"]
                  ELSE [rule |-> "oncall", from |-> s.oncall[1].from, to |-> s.oncall[1].to,
                        note |-> s.oncall[1].note]
             ELSE [rule |-> "help"]

AskSchedule(question, today) ==
    /\ resp' = [op |-> "ask_schedule", status |-> 200, question |-> question, today |-> today,
                answer |-> ask_schedule(schedule_config, question, today)]
    /\ UNCHANGED <<documents, chunks, review_queue, schedule_config, clock, env, suspended, ask>>

\* time.time() moves on between any two steps.
Tick ==
    /\ clock < MaxClock
    /\ clock' = clock + 1
    /\ UNCHANGED <<documents, chunks, review_queue, schedule_config, env, suspended, ask, resp>>

\* random.randint(0, MaxRand) is only ever compared for equality, so the draws
\* that matter are 0 (taken or not) and the least value no id of the table
\* carries at this clock value.
TakenRands(table) == {id[2] : id \in {x \in Ids(table) : x[3] = clock}}

LeastFresh(taken) == CHOOSE r \in 0..Cardinality(taken) :
                        r \notin taken /\ \A q \in 0..(r - 1) : q \in taken

Rands(table) == {0, LeastFresh(TakenRands(table))}

\* The draws for the n chunks of one document: all fresh and distinct, or all 0.
ChunkRands(n) ==
    {[i \in 1..n |-> 0],
     [i \in 1..n |-> LeastFresh(TakenRands(chunks) \cup
                        {LeastFresh(TakenRands(chunks)) + k : k \in 0..(i - 2)})]}

Environments == {[LLM_ENABLED |-> FALSE, LLM_PROVIDER |-> "mock"],
                 [LLM_ENABLED |-> TRUE, LLM_PROVIDER |-> "mock"],
                 [LLM_ENABLED |-> TRUE, LLM_PROVIDER |-> "openai"]}

\* init_db on an empty database file; the environment is fixed for the run.
Init ==
    /\ documents = <<>>
    /\ chunks = <<>>
    /\ review_queue = <<>>
    /\ schedule_config = <<>>
    /\ clock = 0
    /\ env \in Environments
    /\ ask = NoAsk
    /\ suspended = NoAsk
    /\ resp = NoResp

\* One question at a time over every document store, question, role and
\* provider outcome: a new question is asked while the review queue is empty.
Next ==
    \/ \E req \in IngestRequests, rand \in Rands(documents) :
          \E rands \in ChunkRands(Len(req.content)) : Ingest(req, rand, rands)
    \/ /\ review_queue = <<>>
       /\ \E question \in Questions, role \in Roles : AskStart(question, role)
    \/ \E lm \in LmOutcomes, rand \in Rands(review_queue) : AskRetrieve(lm, rand)
    \/ \E rand \in Rands(review_queue) : AskComposeMock(rand)
    \/ \E rand \in Rands(review_queue) : AskComposeOpenAI(rand)
    \/ \E status \in StatusFilters : ListReview(status)
    \/ \E id \in Ids(review_queue) \cup {UnknownReviewId}, finalAnswer \in FinalAnswers :
          resolve_review(id, finalAnswer)

Spec == Init /\ [][Next]_vars

\* Every operation, repeated, over the seeded travel policy and the two
\* questions of tests/test_api.py.
QueueNext ==
    \/ \E rand \in Rands(documents) :
          \E rands \in ChunkRands(Len(SeedTravel.content)) : Ingest(SeedTravel, rand, rands)
    \/ \E question \in {QMeals, QSpace} : AskStart(question, "internal")
    \/ \E lm \in LmOutcomes, rand \in Rands(review_queue) : AskRetrieve(lm, rand)
    \/ \E rand \in Rands(review_queue) : AskComposeMock(rand)
    \/ \E rand \in Rands(review_queue) : AskComposeOpenAI(rand)
    \/ \E status \in StatusFilters : ListReview(status)
    \/ \E id \in Ids(review_queue) \cup {UnknownReviewId}, finalAnswer \in FinalAnswers :
          resolve_review(id, finalAnswer)
    \/ \E cfg \in ScheduleConfigs : set_schedule(cfg)
    \/ Tick

SpecQueue == Init /\ [][QueueNext]_vars

\* One question at a time over the handbook, a document of more chunks than a
\* response cites, next to the travel policy.
HandbookNext ==
    \/ \E req \in {Handbook, Travel2026}, rand \in Rands(documents) :
          \E rands \in ChunkRands(Len(req.content)) : Ingest(req, rand, rands)
    \/ /\ review_queue = <<>>
       /\ \E question \in Questions, role \in {"public", "internal"} : AskStart(question, role)
    \/ \E lm \in LmOutcomes, rand \in Rands(review_queue) : AskRetrieve(lm, rand)
    \/ \E rand \in Rands(review_queue) : AskComposeMock(rand)
    \/ \E rand \in Rands(review_queue) : AskComposeOpenAI(rand)

SpecHandbook == Init /\ [][HandbookNext]_vars

\* Two /chat/ask requests in flight, in one worker or in two: the one that runs
\* gives way to the other between its queries or at its await, and the other
\* handlers run in between.
Switch ==
    /\ ask # suspended
    /\ ask' = suspended
    /\ suspended' = ask
    /\ UNCHANGED <<documents, chunks, review_queue, schedule_config, clock, env, resp>>

ConcurrentNext ==
    \/ \E req \in {SeedTravel, Travel2026}, rand \in Rands(documents) :
          \E rands \in ChunkRands(Len(req.content)) : Ingest(req, rand, rands)
    \/ \E question \in {QMeals, QSpace} : AskStart(question, "internal")
    \/ \E lm \in LmOutcomes, rand \in Rands(review_queue) : AskRetrieve(lm, rand)
    \/ \E rand \in Rands(review_queue) : AskComposeMock(rand)
    \/ \E id \in Ids(review_queue) \cup {UnknownReviewId} : resolve_review(id, "final_a")
    \/ set_schedule(SeedSchedule)
    \/ Switch

\* The provider is the mock one, consulted or not.
ConcurrentInit == Init /\ env.LLM_PROVIDER = "mock"

SpecConcurrent == ConcurrentInit /\ [][ConcurrentNext]_vars

\* The schedule handlers on their own, over schedules with and without
\* weekdays, on-call windows and holidays.
BareSchedule == [timezone |-> "UTC", week |-> <<>>, oncall |-> <<>>, holidays |-> <<>>]

ScheduleQuestions ==
    {{"schedule", "Monday"},                        \* "schedule Monday"
     {"any", "holiday", "in", "January"},           \* "Any holidays in January?"
     {"any", "holiday", "in", "December"},          \* "Any holidays in December?"
     {"any", "holiday", "in", "February"},
     {"when", "is", "the", "next", "holiday"},      \* "When is the next holiday?"
     {"is", "Monday", "a", "holiday"},
     {"which", "holiday", "may", "i", "take", "in", "December"},
     {"holiday", "in", "November", "or", "December"},
     {"am", "i", "on-call", "this", "week"},        \* "Am I on-call this week?"
     {"oncall", "on", "Friday"},
     {"hours", "Tuesday", "and", "Monday"},
     {"lunch"}}

\* datetime.now() on three days.
Todays == {strftime(2026, 1, 19), strftime(2026, 12, 30), strftime(2028, 1, 1)}

ScheduleNext ==
    \/ \E cfg \in ScheduleConfigs \cup {BareSchedule} : set_schedule(cfg)
    \/ get_schedule
    \/ \E rand \in Rands(documents) :
          \E rands \in ChunkRands(Len(SeedTravel.content)) : seed(rand, rands)
    \/ \E question \in ScheduleQuestions, today \in Todays : AskSchedule(question, today)

SpecSchedule == Init /\ [][ScheduleNext]_vars

\* ------------------------------------------- retrieval.py, function by function
\* The helpers of retrieval.py called on arguments of their own: ask holds the
\* argument lists of a caller and how far it has come, resp the latest return.
ScoreWords == {"meals", "limit", "hotel", "the"}
ScoreTokens == ScoreWords \cup {"is", "$", "Hotel"}
ScoreContents == [words : SUBSET ScoreWords, short : BOOLEAN]

\* The contents got from content by appending words of the question: every
\* word the content had stays, the appended ones are in, others may arise
\* where the texts join, and a content of 80 characters or more stays one.
Appendings(question, content) ==
    {c2 \in ScoreContents :
        /\ \E W \in SUBSET q_words(question) : W # {} /\ (content.words \cup W) \subseteq c2.words
        /\ c2.short => content.short}

ScoreCalls(questions, contents) ==
    {[pc |-> "score_chunk", question |-> q, args |-> <<c>>, next |-> 1] :
        q \in questions, c \in contents}
    \cup UNION {{[pc |-> "score_chunk", question |-> q, args |-> <<c, c2>>, next |-> 1] :
                    c2 \in Appendings(q, c)} : q \in questions, c \in contents}

\* Distances in thousandths: every hundredth of 0..1 and the neighbours of the
\* two thresholds.
Distances == {10 * h : h \in 0..100} \cup {349, 351, 599, 601}

ConfidenceCalls(distances) ==
    {[pc |-> "confidence_from_distance", args |-> <<d1, d2>>, next |-> 1] : d1, d2 \in distances}

MaxCited == 3       \* citations in a list handed to detect_conflict

CitedDocs == {<<"doc", 0, 0>>, <<"doc", 1, 0>>}
Cited == [chunkId : {<<"chunk", 0, 0>>}, docId : CitedDocs, pageStart : {1, 2}, distance : {0}]
CitationLists(longest) == UNION {[1..n -> Cited] : n \in 0..longest}

ConflictQuestions ==
    {QMeals, QSpace, QMoney, {"LIMIT"}, {"Max", "hotel"}, {"how", "much", "how much"}, {}}

ConflictCalls(questions, lists) ==
    {[pc |-> "detect_conflict", question |-> q, args |-> <<cs>>, next |-> 1] :
        q \in questions, cs \in lists}

ScoreChunk ==
    /\ ask.pc = "score_chunk" /\ ask.next <= Len(ask.args)
    /\ resp' = [op |-> "score_chunk", status |-> 200, question |-> ask.question,
                content |-> ask.args[ask.next],
                result |-> score_chunk(ask.question, ask.args[ask.next])]
    /\ ask' = [ask EXCEPT !.next = @ + 1]
    /\ UNCHANGED <<documents, chunks, review_queue, schedule_config, clock, env, suspended>>

ConfidenceFromDistance ==
    /\ ask.pc = "confidence_from_distance" /\ ask.next <= Len(ask.args)
    /\ resp' = [op |-> "confidence_from_distance", status |-> 200,
                best_distance |-> ask.args[ask.next],
                result |-> confidence_from_distance(ask.args[ask.next])]
    /\ ask' = [ask EXCEPT !.next = @ + 1]
    /\ UNCHANGED <<documents, chunks, review_queue, schedule_config, clock, env, suspended>>

DetectConflict ==
    /\ ask.pc = "detect_conflict" /\ ask.next <= Len(ask.args)
    /\ resp' = [op |-> "detect_conflict", status |-> 200, question |-> ask.question,
                citations |-> ask.args[ask.next],
                result |-> detect_conflict(ask.args[ask.next], ask.question)]
    /\ ask' = [ask EXCEPT !.next = @ + 1]
    /\ UNCHANGED <<documents, chunks, review_queue, schedule_config, clock, env, suspended>>

RetrievalInit ==
    /\ documents = <<>>
    /\ chunks = <<>>
    /\ review_queue = <<>>
    /\ schedule_config = <<>>
    /\ clock = 0
    /\ env = [LLM_ENABLED |-> FALSE, LLM_PROVIDER |-> "mock"]
    /\ ask \in ScoreCalls(SUBSET ScoreTokens, ScoreContents)
                \cup ConfidenceCalls(Distances)
                \cup ConflictCalls(ConflictQuestions, CitationLists(MaxCited))
    /\ suspended = NoAsk
    /\ resp = NoResp

RetrievalNext == ScoreChunk \/ ConfidenceFromDistance \/ DetectConflict

SpecRetrieval == RetrievalInit /\ [][RetrievalNext]_vars


\* ------------------------------------------------------------------ claims
\* A /chat/ask request that went through the escalation gate has just ended.
AskEnded == resp.op = "ask_policy" /\ resp.path = "gate"
\* ... and the generation provider was consulted for it.
ProviderAsked == AskEnded /\ resp.locals.consulted
\* ... and the caller received the response.
AskAnswered == resp.op = "ask_policy" /\ resp.status = 200

CitationIds(citations) == {citations[i].chunkId : i \in DOMAIN citations}

\* C1: when the call to the generation provider fails, the response carries the
\* template-mode answer and the locally computed confidence, and lowConfidence
\* is what it was before the call.
C1_FailedProviderFallsBackToTemplate ==
    (ProviderAsked /\ resp.locals.outcome.kind = "failed") =>
        /\ resp.status = 200
        /\ resp.answer = resp.locals.template.answer
        /\ resp.confidence = resp.locals.template.confidence
        /\ resp.lowConfidence = resp.locals.template.low_confidence

\* C2: whatever the provider call ends with, /chat/ask returns a well-formed
\* response whose confidence is High, Medium or Low.
C2_EveryProviderOutcomeIsAnswered ==
    ProviderAsked => (resp.status = 200 /\ resp.confidence \in ConfidenceLabels)

\* C3: when the provider names chunk ids, the response cites the original
\* citations whose id it named, in their order, and all the original citations
\* (a non-empty list) when it named none of them.
C3_NarrowingKeepsOrRestoresCitations ==
    (ProviderAsked /\ resp.status = 200 /\ resp.locals.llm_result.used_chunk_ids # {}) =>
        LET original == resp.locals.template.citations
            used == resp.locals.llm_result.used_chunk_ids
        IN  IF CitationIds(original) \cap used = {}
            THEN resp.citations = original /\ resp.citations # <<>>
            ELSE resp.citations = SelectSeq(original, LAMBDA c : c.chunkId \in used)

C3_Witness ==
    /\ ProviderAsked /\ resp.status = 200
    /\ resp.locals.llm_result.used_chunk_ids = {BogusId}
    /\ Len(resp.citations) >= 2
    /\ \E i \in DOMAIN resp.locals.scored : ~IsCited(resp.locals.scored[i])

\* C4: a /chat/ask response with no citations comes with a review item of
\* reason not_found, named by the response's reviewId.
C4_NoCitationsIsEscalated ==
    (AskAnswered /\ resp.citations = <<>>) =>
        /\ resp.lowConfidence
        /\ \E i \in DOMAIN review_queue :
              /\ review_queue[i].id = resp.reviewId
              /\ review_queue[i].reason = "not_found"

\* C5: the review item a response names exists with the asked question and
\* status open; a listing by status holds exactly the items of that status; and
\* an item stays, open until a resolve of its id makes it resolved.
C5_Named ==
    (AskAnswered /\ resp.reviewId # NoId) =>
        \E i \in DOMAIN review_queue :
            /\ review_queue[i].id = resp.reviewId
            /\ review_queue[i].question = resp.locals.question
            /\ review_queue[i].status = "open"

C5_Listed ==
    (resp.op = "list_review" /\ resp.filter # Null) =>
        \A i \in DOMAIN review_queue :
            (review_queue[i].status = resp.filter) <=>
                (\E j \in DOMAIN resp.items : resp.items[j].id = review_queue[i].id)

C5_OpenUntilResolved ==
    /\ Len(review_queue') >= Len(review_queue)
    /\ \A i \in DOMAIN review_queue :
          /\ review_queue'[i].id = review_queue[i].id
          /\ review_queue'[i].status # review_queue[i].status =>
                /\ review_queue'[i].status = "resolved"
                /\ resp'.op = "resolve_review" /\ resp'.id = review_queue[i].id

C5_ReviewIdIsListedUntilResolved ==
    [](C5_Named /\ C5_Listed) /\ [][C5_OpenUntilResolved]_vars

C5_Witness ==
    /\ resp.op = "list_review" /\ resp.filter = "open" /\ Len(resp.items) = 1
    /\ Len(review_queue) = 2
    /\ \E i \in DOMAIN review_queue : review_queue[i].status = "resolved"

\* C6: in template mode the answer comes from the fixed rules with no call to a
\* generation service; "What is the meals limit?" against the seeded travel
\* policy gets the canned meals answer, a confidence other than Low, citations
\* and no review item.
MealsCanned == "meals_capped_at_60_per_day"

SeededOnly ==
    /\ Len(documents) = 1
    /\ documents[1].policy_key = "travel_policy"
    /\ documents[1].effective_date = SeedTravel.effectiveDate

C6_TemplateAnswerIsCanned ==
    (AskEnded /\ ~env.LLM_ENABLED) =>
        /\ resp.locals.lm_calls = 0
        /\ (resp.locals.question = QMeals /\ resp.locals.role = "internal" /\ SeededOnly) =>
              /\ resp.answer = MealsCanned
              /\ resp.confidence # "Low"
              /\ resp.citations # <<>>
              /\ resp.reviewId = NoId

Escalated == AskEnded /\ resp.lowConfidence /\ resp.error # "IntegrityError"

C8_ReviewItemRecordsTheGate ==
    Escalated =>
        LET item == review_queue[Len(review_queue)]
            not_found == resp.locals.template.citations = <<>> \/ resp.bestDistance >= 900
            conflict == detect_conflict(resp.locals.template.citations, resp.locals.question)
        IN  /\ Len(review_queue) >= 1
            /\ item.id = resp.reviewId
            /\ item.reason = IF not_found THEN "not_found"
                             ELSE IF conflict THEN "conflict" ELSE "low_confidence"
            /\ (item.draft_answer = Null) <=> not_found
            /\ ~not_found => item.draft_answer = resp.answer
            /\ item.draft_citations = resp.citations

C8_Witness ==
    /\ Escalated /\ resp.status = 200
    /\ resp.locals.consulted /\ resp.locals.llm_result.escalate
    /\ review_queue[Len(review_queue)].reason = "low_confidence"
    /\ review_queue[Len(review_queue)].draft_answer = "provider_answer"
    /\ resp.bestDistance <= 500
    /\ Len(resp.citations) < Len(resp.locals.template.citations)

\* C9: a /chat/ask response with lowConfidence = true comes with exactly one new
\* review item, under an id no earlier item has, and one with lowConfidence =
\* false with none.
AskResponds == resp'.op = "ask_policy" /\ resp'.status = 200 /\ clock' = clock

C9_OneReviewItemPerLowConfidence ==
    [][AskResponds =>
         IF resp'.lowConfidence
         THEN /\ Len(review_queue') = Len(review_queue) + 1
              /\ SubSeq(review_queue', 1, Len(review_queue)) = review_queue
              /\ review_queue'[Len(review_queue')].id \notin Ids(review_queue)
         ELSE review_queue' = review_queue]_vars

\* C10: review items are created only by /chat/ask, are never deleted, and once
\* an item is resolved no operation changes its status, final answer or
\* resolution timestamp.
C10_ResolvedIsFinal ==
    [][/\ Len(review_queue') >= Len(review_queue)
       /\ Len(review_queue') > Len(review_queue) => resp'.op = "ask_policy"
       /\ \A i \in DOMAIN review_queue :
             /\ review_queue'[i].id = review_queue[i].id
             /\ review_queue[i].status = "resolved" =>
                   /\ review_queue'[i].status = "resolved"
                   /\ review_queue'[i].final_answer = review_queue[i].final_answer
                   /\ review_queue'[i].resolved_at = review_queue[i].resolved_at]_vars

\* C11: resolving an id that names no review item answers 404 and leaves every
\* item as it was; resolving an existing id answers 200 and makes that item,
\* and no other, resolved with the given final answer.
C11_ResolveHitsOnlyTheNamedItem ==
    [][(resp'.op = "resolve_review" /\ clock' = clock) =>
          IF resp'.id \in Ids(review_queue)
          THEN /\ resp'.status = 200
               /\ Len(review_queue') = Len(review_queue)
               /\ \A i \in DOMAIN review_queue :
                     IF review_queue[i].id = resp'.id
                     THEN /\ review_queue'[i].status = "resolved"
                          /\ review_queue'[i].final_answer = resp'.finalAnswer
                          /\ review_queue'[i].id = review_queue[i].id
                          /\ review_queue'[i].question = review_queue[i].question
                     ELSE review_queue'[i] = review_queue[i]
          ELSE /\ resp'.status = 404
               /\ review_queue' = review_queue]_vars

C11_Witness ==
    /\ resp.op = "resolve_review" /\ resp.status = 200
    /\ Len(review_queue) = 2
    /\ \E i, j \in DOMAIN review_queue :
          /\ review_queue[i].id = resp.id /\ review_queue[i].status = "resolved"
          /\ review_queue[i].final_answer = resp.finalAnswer
          /\ review_queue[j].id # resp.id /\ review_queue[j].status = "open"

\* C12: the citations of a /chat/ask response are in non-decreasing order of
\* distance, are at most 6, and each is a candidate chunk whose unrounded score
\* is below 0.95 and that fewer than 6 candidates score strictly better than.
C12_CitationsAreTheBestSix ==
    AskEnded =>
        LET cs == resp.citations
            scored == resp.locals.scored
        IN  /\ Len(cs) <= 6
            /\ \A i \in 1..(Len(cs) - 1) : cs[i].distance <= cs[i + 1].distance
            /\ \A i \in DOMAIN cs :
                  \E k \in DOMAIN scored :
                      /\ scored[k].c.id = cs[i].chunkId
                      /\ scored[k].dist < Threshold(95)
                      /\ Cardinality({m \in DOMAIN scored : scored[m].dist < scored[k].dist}) < 6

C12_Witness ==
    /\ ProviderAsked /\ resp.status = 200
    /\ resp.locals.llm_result.used_chunk_ids = {BogusId}
    /\ Len(resp.citations) = 6
    /\ Cardinality({m \in DOMAIN resp.locals.scored : IsCited(resp.locals.scored[m])}) > 6
    /\ \E i \in 1..5 : resp.citations[i].distance < resp.citations[i + 1].distance

\* C13: every citation of a /chat/ask response, and of the review item it
\* creates, is a chunk whose access label is at or below the role of the
\* request in the order public < internal < confidential < restricted.
AccessRank(a) ==
    CASE a = "public" -> 1 [] a = "internal" -> 2 [] a = "confidential" -> 3 [] a = "restricted" -> 4

ChunkOf(id) == chunks[CHOOSE i \in DOMAIN chunks : chunks[i].id = id]

Permitted(citations, role) ==
    \A i \in DOMAIN citations :
        /\ citations[i].chunkId \in Ids(chunks)
        /\ AccessRank(ChunkOf(citations[i].chunkId).access) <= AccessRank(role)

C13_CitationsWithinRole ==
    resp.op = "ask_policy" =>
        /\ Permitted(resp.citations, resp.locals.role)
        /\ \A i \in DOMAIN review_queue :
              review_queue[i].id = resp.reviewId =>
                  Permitted(review_queue[i].draft_citations, resp.locals.role)

C13_Witness ==
    /\ AskAnswered /\ resp.locals.role = "public"
    /\ resp.citations # <<>>
    /\ \E i \in DOMAIN chunks :
          /\ chunks[i].access = "restricted"
          /\ score_chunk(resp.locals.question, chunks[i].content) < Threshold(95)
    /\ \E i \in DOMAIN review_queue : review_queue[i].id = resp.reviewId

\* C14: the citations of a /chat/ask response that belong to one policy key
\* come from one document, and no document of that key the request found
\* stored has a later effective date.
DocOf(rows, id) == rows[CHOOSE i \in DOMAIN rows : rows[i].id = id]

C14_OnlyNewestRevisionIsCited ==
    resp.op = "ask_policy" =>
        LET rows == resp.locals.doc_rows
            cs == resp.citations
        IN  \A i \in DOMAIN cs :
                /\ cs[i].docId \in Ids(rows)
                /\ \A k \in DOMAIN rows :
                      rows[k].policy_key = DocOf(rows, cs[i].docId).policy_key =>
                          DocOf(rows, cs[i].docId).effective_date >= rows[k].effective_date
                /\ \A j \in DOMAIN cs :
                      DocOf(rows, cs[j].docId).policy_key = DocOf(rows, cs[i].docId).policy_key =>
                          cs[j].docId = cs[i].docId

C14_Witness ==
    /\ AskAnswered /\ resp.citations # <<>>
    /\ Len(resp.locals.doc_rows) = 2
    /\ resp.locals.doc_rows[1].policy_key = resp.locals.doc_rows[2].policy_key
    /\ resp.locals.doc_rows[1].effective_date > resp.locals.doc_rows[2].effective_date
    /\ \E i \in DOMAIN chunks :
          /\ chunks[i].doc_id = resp.locals.doc_rows[2].id
          /\ score_chunk(resp.locals.question, chunks[i].content) < Threshold(95)

\* C15: score_chunk returns 1.0 for a question without a word of 3 or more
\* characters, and otherwise clamp(1 - hits/n + penalty, 0, 1) with n the
\* distinct such words, hits those of them the content holds and penalty 0.08
\* for a content under 80 characters; the result lies within 0..1.  (The
\* equation is stated multiplied by n.)
Qualifying(question) == {w \in LowerAll(question) : w \notin {"$", "?"} /\ Len(w) >= 3}

C15_ScoreIsClampedOverlap ==
    resp.op = "score_chunk" =>
        LET n == Cardinality(Qualifying(resp.question))
            hits == Cardinality(Qualifying(resp.question) \cap resp.content.words)
            penalty == IF resp.content.short THEN (8 * Scale) \div 100 ELSE 0
            unclamped == n * Scale - hits * Scale + n * penalty
        IN  /\ 0 <= resp.result /\ resp.result <= Scale
            /\ IF n = 0 THEN resp.result = Scale
               ELSE n * resp.result = IF unclamped > n * Scale THEN n * Scale
                                      ELSE IF unclamped < 0 THEN 0 ELSE unclamped

C15_Witness ==
    /\ resp.op = "score_chunk"
    /\ resp.question = {"is", "$", "Hotel", "meals", "the"}
    /\ resp.content = [words |-> {"hotel", "limit"}, short |-> TRUE]
    /\ 3 * resp.result = 2 * Scale + 3 * ((8 * Scale) \div 100)

\* C16: a content got from another by appending words of the question never
\* scores a greater distance for that question than the content it came from.
C16_AppendingWordsNeverRaisesDistance ==
    [][(/\ resp.op = "score_chunk" /\ resp'.op = "score_chunk"
        /\ resp'.question = resp.question
        /\ \E W \in SUBSET Qualifying(resp.question) :
              W # {} /\ (resp.content.words \cup W) \subseteq resp'.content.words
        /\ resp'.content.short => resp.content.short)
          => resp'.result <= resp.result]_vars

C16_Witness ==
    /\ resp.op = "score_chunk" /\ ask.next = 3
    /\ ask.args[1].short /\ ~ask.args[2].short
    /\ ask.args[2].words # ask.args[1].words
    /\ resp.result < score_chunk(ask.question, ask.args[1])

\* C17: confidence_from_distance gives High up to 0.35, Medium above that up
\* to 0.6 and Low beyond, and of two distances the smaller never gets the
\* worse label.
LabelRank(label) == CASE label = "High" -> 3 [] label = "Medium" -> 2 [] label = "Low" -> 1

C17_Thresholds ==
    resp.op = "confidence_from_distance" =>
        /\ resp.result \in {"High", "Medium", "Low"}
        /\ resp.result = "High" <=> resp.best_distance <= 350
        /\ resp.result = "Medium" <=> (350 < resp.best_distance /\ resp.best_distance <= 600)

C17_Monotone ==
    (/\ resp.op = "confidence_from_distance" /\ resp'.op = "confidence_from_distance"
     /\ resp.best_distance < resp'.best_distance)
        => LabelRank(resp.result) >= LabelRank(resp'.result)

C17_ConfidenceIsMonotone == []C17_Thresholds /\ [][C17_Monotone]_vars

C17_Witness ==
    /\ resp.op = "confidence_from_distance" /\ ask.next = 3
    /\ ask.args = <<350, 351>>
    /\ resp.result = "Medium"

\* C18: detect_conflict is true exactly when the question holds a word of the
\* numeric-limit vocabulary, in any case, and the citations span 2 or more
\* document ids and 2 or more (pageStart, docId) pairs; so it is false for no
\* citations and for a question outside the vocabulary.
LimitVocabulary ==
    {"limit", "how much", "maximum", "max", "per day", "per night", "$", "dollar"}

C18_ConflictIffTwoDocuments ==
    resp.op = "detect_conflict" =>
        LET cs == {resp.citations[i] : i \in DOMAIN resp.citations}
        IN  /\ resp.result \in BOOLEAN
            /\ resp.result <=>
                  /\ \E t \in resp.question : Lower(t) \in LimitVocabulary
                  /\ Cardinality({c.docId : c \in cs}) >= 2
                  /\ Cardinality({<<c.pageStart, c.docId>> : c \in cs}) >= 2

C18_Witness ==
    /\ resp.op = "detect_conflict" /\ resp.result
    /\ resp.question = {"LIMIT"}
    /\ Len(resp.citations) = 3
    /\ resp.citations[1].docId = resp.citations[2].docId

\* C19: against a configured schedule one rule answers, by priority: the
\* holiday rule when the question holds "holiday"; else the weekday rule for
\* the first configured entry whose name is in the question, with its day,
\* start and end; else the on-call rule for "oncall" or "on-call"; else the
\* help message.
ScheduleAsked == resp.op = "ask_schedule" /\ schedule_config # <<>>

HolidayRules == {"no_holidays_configured", "holidays_in_month", "no_holidays_in_month",
                 "next_holiday", "no_upcoming_holidays"}

C19_ScheduleRulesByPriority ==
    ScheduleAsked =>
        LET week == loads(schedule_config[1].json_blob).week
            asked == {Lower(t) : t \in resp.question}
            hits == {i \in DOMAIN week : Lower(week[i].day) \in asked}
        IN  IF "holiday" \in asked THEN resp.answer.rule \in HolidayRules
            ELSE IF hits # {}
            THEN /\ resp.answer.rule = "weekday"
                 /\ \E i \in hits :
                       /\ \A k \in hits : i <= k
                       /\ resp.answer.day = week[i].day
                       /\ resp.answer.start = week[i].start
                       /\ resp.answer.end = week[i].end
            ELSE IF "oncall" \in asked \/ "on-call" \in asked
            THEN resp.answer.rule \in {"oncall", "no_oncall_configured"}
            ELSE resp.answer.rule = "help"

C19_Witness ==
    /\ ScheduleAsked
    /\ resp.question = {"is", "Monday", "a", "holiday"}
    /\ \E i \in DOMAIN loads(schedule_config[1].json_blob).week :
          loads(schedule_config[1].json_blob).week[i].day = "Monday"
    /\ resp.answer.rule = "next_holiday"

\* C20: a holiday question that names a month is answered with exactly the
\* configured holidays whose date falls in that month, by name and date, in
\* ascending order of date, or with "no holidays found" in that month when
\* there is none.
InMonth(holidays, m) ==
    {i \in DOMAIN holidays : strptime(holidays[i].date).ok /\ strptime(holidays[i].date).m = m}

ListsMonth(answer, holidays, m) ==
    IF InMonth(holidays, m) = {}
    THEN answer.rule = "no_holidays_in_month" /\ answer.month = m
    ELSE /\ answer.rule = "holidays_in_month" /\ answer.month = m
         /\ Len(answer.listed) = Cardinality(InMonth(holidays, m))
         /\ {answer.listed[i] : i \in DOMAIN answer.listed}
               = {[name |-> holidays[i].name, date |-> holidays[i].date] : i \in InMonth(holidays, m)}
         /\ \A i, j \in DOMAIN answer.listed :
               i < j => DateLeq(strptime(answer.listed[i].date), strptime(answer.listed[j].date))

HolidayMonthAsked(m) ==
    /\ ScheduleAsked
    /\ "holiday" \in {Lower(t) : t \in resp.question}
    /\ Months[m] \in {Lower(t) : t \in resp.question}

C20_NamedMonthIsListed ==
    \A m \in DOMAIN Months :
        HolidayMonthAsked(m) => ListsMonth(resp.answer, loads(schedule_config[1].json_blob).holidays, m)

\* C20 as amended: with holidays configured, the month answered for is the
\* first in calendar order whose name occurs in the question; with none
\* configured the answer is "no holidays configured".
C20_FirstNamedMonthIsListed ==
    \A m \in DOMAIN Months :
        (HolidayMonthAsked(m) /\ \A k \in 1..(m - 1) : ~HolidayMonthAsked(k)) =>
            IF loads(schedule_config[1].json_blob).holidays = <<>>
            THEN resp.answer.rule = "no_holidays_configured"
            ELSE ListsMonth(resp.answer, loads(schedule_config[1].json_blob).holidays, m)

C20_Witness ==
    /\ HolidayMonthAsked(12) /\ ~HolidayMonthAsked(5) /\ ~HolidayMonthAsked(11)
    /\ resp.answer.rule = "holidays_in_month"
    /\ Len(resp.answer.listed) = 3
    /\ resp.answer.listed[1].name = "Founders Day"
    /\ resp.answer.listed[3].name = "Next Eve"

\* C21: a holiday question that names no month is answered with the
\* configured holiday of the earliest date on or after the current date, never
\* with one of an earlier date, and with "no upcoming holidays" when every
\* configured holiday is before the current date.
NextHolidayAsked ==
    /\ ScheduleAsked
    /\ "holiday" \in {Lower(t) : t \in resp.question}
    /\ \A m \in DOMAIN Months : ~HolidayMonthAsked(m)
    /\ loads(schedule_config[1].json_blob).holidays # <<>>

OnOrAfter(holidays, today) ==
    {i \in DOMAIN holidays : /\ strptime(holidays[i].date).ok
                             /\ DateLeq(strptime(today), strptime(holidays[i].date))}

C21_NextHolidayIsEarliestUpcoming ==
    NextHolidayAsked =>
        LET holidays == loads(schedule_config[1].json_blob).holidays
            coming == OnOrAfter(holidays, resp.today)
        IN  IF coming = {} THEN resp.answer.rule = "no_upcoming_holidays"
            ELSE /\ resp.answer.rule = "next_holiday"
                 /\ \E i \in coming :
                       /\ \A k \in coming :
                             DateLeq(strptime(holidays[i].date), strptime(holidays[k].date))
                       /\ resp.answer.name = holidays[i].name
                       /\ resp.answer.date = holidays[i].date

\* C22: the schedule store holds at most one record; only a set or the seeding
\* changes it, and then it holds exactly the configuration given (the default
\* one for the seeding) with nothing of the earlier one; a get returns the
\* stored configuration, and nothing before any set; /schedule/ask answers
\* with entries of the stored configuration only, and reports that no schedule
\* is configured before any set.
Stored == [i \in DOMAIN schedule_config |-> loads(schedule_config[i].json_blob)]

EntryOf(entries, picked) == \E i \in DOMAIN entries : entries[i] = picked

AnswersFrom(answer, cfg) ==
    /\ answer.rule # "no_schedule"
    /\ answer.rule \in {"holidays_in_month", "next_holiday", "weekday"} =>
          answer.timezone = cfg.timezone
    /\ answer.rule = "weekday" =>
          EntryOf(cfg.week, [day |-> answer.day, start |-> answer.start,
                             end |-> answer.end, note |-> answer.note])
    /\ answer.rule = "next_holiday" =>
          EntryOf(cfg.holidays, [date |-> answer.date, name |-> answer.name])
    /\ answer.rule = "holidays_in_month" =>
          \A i \in DOMAIN answer.listed : EntryOf(cfg.holidays, answer.listed[i])
    /\ answer.rule = "oncall" =>
          EntryOf(cfg.oncall, [from |-> answer.from, to |-> answer.to, note |-> answer.note])
    /\ answer.rule = "no_holidays_configured" => cfg.holidays = <<>>
    /\ answer.rule = "no_oncall_configured" => cfg.oncall = <<>>

C22_Singleton ==
    /\ Len(schedule_config) <= 1
    /\ resp.op = "set_schedule" => Stored = <<resp.cfg>>
    /\ (resp.op = "seed" /\ resp.status = 0) => Stored = <<SeedSchedule>>
    /\ resp.op = "get_schedule" => resp.body = Stored
    /\ resp.op = "ask_schedule" =>
          IF Stored = <<>> THEN resp.answer.rule = "no_schedule"
          ELSE AnswersFrom(resp.answer, Stored[1])

C22_OnlySetChanges ==
    schedule_config' # schedule_config => resp'.op \in {"set_schedule", "seed"}

C22_ScheduleIsFullyReplaced == []C22_Singleton /\ [][C22_OnlySetChanges]_vars

C22_Witness ==
    /\ resp.op = "get_schedule"
    /\ resp.body = <<BareSchedule>>
    /\ documents # <<>>

\* C23: with two /chat/ask requests in flight among ingests, resolves and
\* schedule sets, a request cites only chunks of documents it has read, and a
\* stored document always has all its chunks; a request that ends with low
\* confidence while another is in flight adds a review item of its own, under
\* an id no other item has, holding its question and its citations.
Posted(doc) ==
    CHOOSE req \in {SeedTravel, Travel2026} :
        req.policyKey = doc.policy_key /\ req.effectiveDate = doc.effective_date

WholeInsertions ==
    /\ \A i \in DOMAIN chunks : chunks[i].doc_id \in Ids(documents)
    /\ \A i \in DOMAIN documents :
          Cardinality({k \in DOMAIN chunks : chunks[k].doc_id = documents[i].id})
             = Len(Posted(documents[i]).content)

AskReturns == ask.pc \in {"chunks", "compose"} /\ ask' = NoAsk /\ suspended' = suspended

C23_CitesWhatItRead ==
    AskReturns =>
        \A i \in DOMAIN resp'.citations :
            /\ resp'.citations[i].docId \in Ids(ask.l.doc_rows)
            /\ resp'.citations[i].chunkId \in Ids(chunks)

C23_OwnReviewItem ==
    (AskReturns /\ suspended.pc # "idle" /\ resp'.lowConfidence) =>
        /\ Len(review_queue') = Len(review_queue) + 1
        /\ SubSeq(review_queue', 1, Len(review_queue)) = review_queue
        /\ LET item == review_queue'[Len(review_queue')]
           IN  /\ item.id \notin Ids(review_queue)
               /\ item.question = ask.l.question
               /\ item.draft_citations = resp'.citations

C23_ConcurrentAsksAreIndependent ==
    /\ []WholeInsertions
    /\ [][C23_CitesWhatItRead]_vars
    /\ [][C23_OwnReviewItem]_vars

\* C24: one /chat/ask request issues at most one call to a text-generation
\* service, whether the call succeeds or fails, and none when the provider
\* integration is disabled or the citation list is empty.
GenerationCalls == resp.locals.lm_calls + resp.locals.provider_calls

Retrieval(l) == IF resp.path = "no_documents" THEN <<>> ELSE l.template.citations

C24_AtMostOneGenerationCall ==
    resp.op = "ask_policy" =>
        /\ GenerationCalls <= 1
        /\ (~env.LLM_ENABLED \/ Retrieval(resp.locals) = <<>>) => GenerationCalls = 0

\* C25: in every /chat/ask response, narrowed by the provider or not,
\* bestDistance is the distance of the first citation that is returned, or 1.0
\* when none is returned.
C25_BestDistanceIsFirstReturned ==
    AskAnswered =>
        resp.bestDistance = IF resp.citations = <<>> THEN 1000 ELSE resp.citations[1].distance

\* C25 as amended: bestDistance is the distance of the first citation that
\* retrieval found, before the provider narrows the list, or 1.0 when it found
\* none; no returned citation is nearer, and the first returned one is at that
\* distance whenever it is the first that retrieval found.
C25_BestDistanceIsFirstRetrieved ==
    AskAnswered =>
        LET found == Retrieval(resp.locals)
        IN  /\ resp.bestDistance = IF found = <<>> THEN 1000 ELSE found[1].distance
            /\ \A i \in DOMAIN resp.citations : resp.bestDistance <= resp.citations[i].distance
            /\ (resp.citations # <<>> /\ resp.citations[1].chunkId = found[1].chunkId) =>
                  resp.bestDistance = resp.citations[1].distance

C25_Witness ==
    /\ ProviderAsked /\ resp.status = 200
    /\ Len(resp.locals.template.citations) >= 2
    /\ Len(resp.citations) = 1
    /\ resp.citations[1].chunkId # resp.locals.template.citations[1].chunkId
    /\ resp.bestDistance < resp.citations[1].distance

\* C26: what a /chat/ask request of role r receives is what it would receive
\* from the store without the documents and chunks labelled above r: the same
\* early "no documents" response or none, and the same citations found, from
\* which answer, confidence, bestDistance, lowConfidence and the review item
\* follow.
Visible(rows, role) == SelectSeq(rows, LAMBDA d : d.access \in allowed_access(role))

FoundWithout(l) ==
    citations_of(scored_of(l.question,
        SelectSeq(chunks, LAMBDA c : /\ c.doc_id \in valid_doc_ids_of(Visible(l.doc_rows, l.role))
                                     /\ c.access \in allowed_access(l.role))))

C26_DocumentsAreRead ==
    /\ (ask.pc = "idle" /\ ask'.pc = "chunks") =>
          valid_doc_ids_of(Visible(documents, ask'.l.role)) # {}
    /\ (ask.pc = "idle" /\ ask'.pc = "idle" /\ resp' # resp /\ resp'.op = "ask_policy") =>
          valid_doc_ids_of(Visible(documents, resp'.locals.role)) = {}

C26_ChunksAreRead ==
    (ask.pc = "chunks" /\ suspended' = suspended /\ ask'.pc # "chunks") =>
        FoundWithout(ask.l) = IF ask'.pc = "compose" THEN ask'.l.citations
                              ELSE resp'.locals.template.citations

C26_HiddenMaterialChangesNothing ==
    [][C26_DocumentsAreRead]_vars /\ [][C26_ChunksAreRead]_vars

====
